---------------------------- MODULE Spec2Model ----------------------------
(***************************************************************************)
(* charlie: stateless CSRF tokens.  A token is base64url(ts || tag) where  *)
(* ts is the 32-bit big-endian Unix second of generation and tag is the    *)
(* HMAC-SHA256 of (ts || id) truncated to 16 bytes (src/charlie.go), and   *)
(* the HTTP adapter that guards a handler with it (src/http_handler.go).   *)
(*                                                                         *)
(* Strings and byte slices are sequences of byte values 0..255 (a token    *)
(* string is the sequence of its ASCII codes).  A 32-bit unsigned second   *)
(* count is the pair <<hi, lo>> of its 16-bit halves, value hi*65536+lo,   *)
(* so that the whole 32-bit range is representable.  A wall-clock reading  *)
(* is [hi, lo, frac]: the second and the sub-second part in ticks.         *)
(***************************************************************************)
EXTENDS Integers, Sequences, FiniteSets, TLC

VARIABLES key, MaxAge, now, issued, res, hp, csrf, req, resp, tokens, pc, held, nvalid

vars == <<key, MaxAge, now, issued, res, hp, csrf, req, resp, tokens, pc, held, nvalid>>

codecVars == <<key, MaxAge, now, issued, res>>
httpVars == <<hp, csrf, req, resp>>
concVars == <<tokens, pc, held, nvalid>>

\* ------------------------------------------------------------ bounds
\* Sub-second resolution of the clock: ticks per second.
TicksPerSec == 3
\* Longest run of extra bytes appended to a decoded token.
MaxExtra == 2
\* Producers, consumers, tokens per producer and channel capacity of the
\* concurrent round trip.
NumProducers == 2
NumConsumers == 2
PerProducer == 1
ChanCap == 1

\* ------------------------------------------------------------ constants
dataSize == 4
macSize == 16

\* The absent value of a record-valued variable.
None == [none |-> TRUE]
ErrInvalidToken == "ErrInvalidToken"
Nil == "nil"
Panic == "panic"

\* ------------------------------------------------------------ bytes
RECURSIVE SumSeq(_)
SumSeq(s) == IF s = <<>> THEN 0 ELSE Head(s) + SumSeq(Tail(s))

Pow2(k) == CASE k = 0 -> 1 [] k = 1 -> 2 [] k = 2 -> 4 [] k = 3 -> 8
             [] k = 4 -> 16 [] k = 5 -> 32 [] k = 6 -> 64 [] OTHER -> 128

\* b with bit k inverted (b ^ (1 << k)).
FlipBit(b, k) == IF (b \div Pow2(k)) % 2 = 1 THEN b - Pow2(k) ELSE b + Pow2(k)

FlipAt(bytes, i, k) == [bytes EXCEPT ![i] = FlipBit(bytes[i], k)]

Zeros(n) == [i \in 1..n |-> 0]

\* ------------------------------------------------------------ base64.URLEncoding
\* The URL alphabet "A-Za-z0-9-_" as ASCII codes; '=' pads.
EncodeChar(v) == IF v < 26 THEN 65 + v
                 ELSE IF v < 52 THEN 97 + (v - 26)
                 ELSE IF v < 62 THEN 48 + (v - 52)
                 ELSE IF v = 62 THEN 45 ELSE 95

\* decodeMap: the sextet of an alphabet character, 255 for any other byte.
DecodeChar(c) == IF c >= 65 /\ c <= 90 THEN c - 65
                 ELSE IF c >= 97 /\ c <= 122 THEN c - 97 + 26
                 ELSE IF c >= 48 /\ c <= 57 THEN c - 48 + 52
                 ELSE IF c = 45 THEN 62
                 ELSE IF c = 95 THEN 63 ELSE 255

PadChar == 61
IsNewline(c) == c = 10 \/ c = 13

RECURSIVE EncodeToString(_)
EncodeToString(b) ==
    IF Len(b) = 0 THEN <<>>
    ELSE IF Len(b) = 1 THEN
        <<EncodeChar(b[1] \div 4), EncodeChar((b[1] % 4) * 16), PadChar, PadChar>>
    ELSE IF Len(b) = 2 THEN
        <<EncodeChar(b[1] \div 4),
          EncodeChar((b[1] % 4) * 16 + b[2] \div 16),
          EncodeChar((b[2] % 16) * 4), PadChar>>
    ELSE
        <<EncodeChar(b[1] \div 4),
          EncodeChar((b[1] % 4) * 16 + b[2] \div 16),
          EncodeChar((b[2] % 16) * 4 + b[3] \div 64),
          EncodeChar(b[3] % 64)>> \o EncodeToString(SubSeq(b, 4, Len(b)))

\* DecodedLen: the size of the buffer DecodeString allocates, from the raw
\* length of the text (newlines included).
DecodedLen(n) == (n \div 4) * 3

\* The bytes of one quantum of n significant characters (4, 3 or 2).
QuantumBytes(d1, d2, d3, d4, n) ==
    LET val == d1 * 262144 + d2 * 4096 + d3 * 64 + d4
        b == <<val \div 65536, (val \div 256) % 256, val % 256>>
    IN SubSeq(b, 1, n - 1)

\* The decoder's loop over t, the text without '\r' and '\n' (which it
\* skips wherever they stand): whole quanta of four alphabet characters, the
\* last one possibly "xx==" or "xxx=", nothing after the padding.
RECURSIVE DecodeQuanta(_, _)
DecodeQuanta(t, acc) ==
    IF Len(t) = 0 THEN [err |-> FALSE, data |-> acc]
    ELSE IF Len(t) < 4 THEN [err |-> TRUE, data |-> acc]
    ELSE LET d1 == DecodeChar(t[1])
             d2 == DecodeChar(t[2])
             d3 == DecodeChar(t[3])
             d4 == DecodeChar(t[4])
         IN IF d1 = 255 \/ d2 = 255 THEN [err |-> TRUE, data |-> acc]
            ELSE IF d3 = 255 THEN
                IF t[3] = PadChar /\ t[4] = PadChar /\ Len(t) = 4
                THEN [err |-> FALSE, data |-> acc \o QuantumBytes(d1, d2, 0, 0, 2)]
                ELSE [err |-> TRUE, data |-> acc]
            ELSE IF d4 = 255 THEN
                IF t[4] = PadChar /\ Len(t) = 4
                THEN [err |-> FALSE, data |-> acc \o QuantumBytes(d1, d2, d3, 0, 3)]
                ELSE [err |-> TRUE, data |-> acc]
            ELSE DecodeQuanta(SubSeq(t, 5, Len(t)),
                              acc \o QuantumBytes(d1, d2, d3, d4, 4))

\* DecodeString: dbuf[:n] of a zeroed buffer of DecodedLen(len(s)) bytes.
\* data is the slice, cap its capacity; the bytes between len and cap are 0.
DecodeString(s) ==
    LET r == DecodeQuanta(SelectSeq(s, LAMBDA c : ~IsNewline(c)), <<>>)
    IN [err |-> r.err, data |-> r.data, cap |-> DecodedLen(Len(s))]

\* ------------------------------------------------------------ time
\* uint32(x) of a second count <<hi, lo>>: the low 32 bits.
ToUint32(s) == <<s[1] % 65536, s[2]>>

\* time.Time.Unix: the whole seconds of a reading.
Unix(t) == <<t.hi, t.lo>>

\* time.Unix(sec, 0)
TimeUnix(s) == [hi |-> s[1], lo |-> s[2], frac |-> 0]

\* binary.BigEndian.PutUint32 / Uint32
PutUint32(s) == <<s[1] \div 256, s[1] % 256, s[2] \div 256, s[2] % 256>>
Uint32(b) == <<b[1] * 256 + b[2], b[3] * 256 + b[4]>>

\* time.Time.Sub in ticks.  A Duration saturates; the model's saturates at a
\* difference of 8000 * 65536 seconds (16 years), far above any MaxAge.
Sub(a, b) ==
    LET dh == a.hi - b.hi
    IN IF dh > 8000 THEN 8000 * 65536 * TicksPerSec
       ELSE IF dh < -8000 THEN -(8000 * 65536 * TicksPerSec)
       ELSE (dh * 65536 + (a.lo - b.lo)) * TicksPerSec + (a.frac - b.frac)

Seconds(n) == n * TicksPerSec
Minutes(n) == Seconds(60 * n)
Hours(n) == Minutes(60 * n)

\* ------------------------------------------------------------ codec
\* hmacSHA256(key, data, id): HMAC-SHA256 over data || id, cut to macSize.
\* The MAC is taken as ideal: a keyed function without collisions on the
\* messages of the model (at most macSize - 1 bytes).  Byte i of the tag is
\* byte i of the message offset by the key, the bytes after the message
\* carry its length offset by the key.
KeyByte(k, i) == IF Len(k) = 0 THEN 0 ELSE k[((i - 1) % Len(k)) + 1]

\* An hmacSHA256 that leaves the identity out of the message.
hmacSHA256_ignoreId(k, data, id) ==
    LET ksum == SumSeq(k)
    IN [i \in 1..macSize |->
          IF i <= Len(data) THEN (data[i] + KeyByte(k, i)) % 256
          ELSE (ksum + Len(data)) % 256]

hmacSHA256(k, data, id) ==
    LET msg == data \o id
        ksum == SumSeq(k)
    IN [i \in 1..macSize |->
          IF i <= Len(msg) THEN (msg[i] + KeyByte(k, i)) % 256
          ELSE (ksum + Len(msg)) % 256]

\* An Equal that compares only the first half of the tags.
Equal_firstHalf(a, b) == SubSeq(a, 1, macSize \div 2) = SubSeq(b, 1, macSize \div 2)

\* hmac.Equal
Equal(a, b) == a = b

\* New(key): the default policy.
New(k) == [key |-> k, MaxAge |-> Minutes(10)]

\* A Generate that computes the tag before the timestamp is written into
\* the buffer (the tag covers four zero bytes).
Generate_macBeforeStamp(p, t, id) ==
    LET buf == PutUint32(ToUint32(Unix(t)))
    IN EncodeToString(buf \o hmacSHA256(p.key, Zeros(dataSize), id))

\* Generate(id) at clock reading t.
Generate(p, t, id) ==
    LET buf == PutUint32(ToUint32(Unix(t)))
    IN EncodeToString(buf \o hmacSHA256(p.key, buf, id))

\* The decode buffer read through its capacity: data, then zeros.
Backing(d) == d.data \o Zeros(d.cap - Len(d.data))

\* A Validate that bounds the distance of the timestamp from now in both
\* directions.
Validate_absAge(p, t, id, token) ==
    LET d == DecodeString(token)
    IN IF d.err THEN ErrInvalidToken
       ELSE IF dataSize > Len(d.data) THEN Panic
       ELSE IF macSize > d.cap - dataSize THEN Panic
       ELSE LET mac == SubSeq(Backing(d), dataSize + 1, dataSize + macSize)
                data == SubSeq(d.data, 1, dataSize)
                age == Sub(t, TimeUnix(Uint32(data)))
            IN IF ~Equal(hmacSHA256(p.key, data, id), mac) THEN ErrInvalidToken
               ELSE IF age > p.MaxAge \/ -age > p.MaxAge THEN ErrInvalidToken
               ELSE Nil

\* A Validate that compares the age with >= instead of >.
Validate_ageGeq(p, t, id, token) ==
    LET d == DecodeString(token)
    IN IF d.err THEN ErrInvalidToken
       ELSE IF dataSize > Len(d.data) THEN Panic
       ELSE IF macSize > d.cap - dataSize THEN Panic
       ELSE LET mac == SubSeq(Backing(d), dataSize + 1, dataSize + macSize)
                data == SubSeq(d.data, 1, dataSize)
            IN IF ~Equal(hmacSHA256(p.key, data, id), mac) THEN ErrInvalidToken
               ELSE IF Sub(t, TimeUnix(Uint32(data))) >= p.MaxAge THEN ErrInvalidToken
               ELSE Nil

\* A Validate that insists on a decoded length of dataSize + macSize.
Validate_exactLen(p, t, id, token) ==
    LET d == DecodeString(token)
    IN IF d.err THEN ErrInvalidToken
       ELSE IF Len(d.data) # dataSize + macSize THEN ErrInvalidToken
       ELSE LET mac == SubSeq(d.data, dataSize + 1, dataSize + macSize)
                data == SubSeq(d.data, 1, dataSize)
            IN IF ~Equal(hmacSHA256(p.key, data, id), mac) THEN ErrInvalidToken
               ELSE IF Sub(t, TimeUnix(Uint32(data))) > p.MaxAge THEN ErrInvalidToken
               ELSE Nil

\* A Validate that takes MaxAge for a count of seconds where the age is in
\* clock ticks.
Validate_maxAgeSeconds(p, t, id, token) ==
    LET d == DecodeString(token)
    IN IF d.err THEN ErrInvalidToken
       ELSE IF dataSize > Len(d.data) THEN Panic
       ELSE IF macSize > d.cap - dataSize THEN Panic
       ELSE LET mac == SubSeq(Backing(d), dataSize + 1, dataSize + macSize)
                data == SubSeq(d.data, 1, dataSize)
            IN IF ~Equal(hmacSHA256(p.key, data, id), mac) THEN ErrInvalidToken
               ELSE IF Sub(t, TimeUnix(Uint32(data))) > p.MaxAge \div TicksPerSec
                    THEN ErrInvalidToken
               ELSE Nil

\* Validate(id, token) at clock reading t: Nil, ErrInvalidToken, or Panic when
\* a slice expression is out of range.
Validate(p, t, id, token) ==
    LET d == DecodeString(token)
    IN IF d.err THEN ErrInvalidToken
       ELSE IF dataSize > Len(d.data) THEN Panic
       ELSE IF macSize > d.cap - dataSize THEN Panic
       ELSE LET mac == SubSeq(Backing(d), dataSize + 1, dataSize + macSize)
                data == SubSeq(d.data, 1, dataSize)
            IN IF ~Equal(hmacSHA256(p.key, data, id), mac) THEN ErrInvalidToken
               ELSE IF Sub(t, TimeUnix(Uint32(data))) > p.MaxAge THEN ErrInvalidToken
               ELSE Nil

\* ------------------------------------------------------------ inputs
Keys == {<<251>>, <<7, 9>>}
Ids == {<<>>, <<97>>, <<97, 98>>}

\* s seconds after the second count <<hi, lo>>.
AddSec(b, s) == <<b[1] + (b[2] + s) \div 65536, (b[2] + s) % 65536>>

At(b, s, f) == [hi |-> AddSec(b, s)[1], lo |-> AddSec(b, s)[2], frac |-> f]

\* A second of 2024, 536 seconds before its low half wraps, and the second
\* 10801 seconds before the end of the 32-bit range.
T0 == <<26000, 65000>>
TFar == <<65535, 54734>>

Fracs == 0..(TicksPerSec - 1)
Offsets == {0, 300, 599, 600, 601, 1200, 10800, 10801}

\* The clock readings of the model: all within the 32-bit second range.
Instants == {At(T0, s, f) : s \in Offsets, f \in Fracs}
              \cup {At(TFar, 10801, f) : f \in Fracs}

Policies == {Minutes(10), Hours(3)}

Params == [key |-> key, MaxAge |-> MaxAge]

\* The reading with its sub-second part dropped: the time a token carries.
Stamp(t) == TimeUnix(ToUint32(Unix(t)))

HttpIdle == hp = None /\ csrf = None /\ req = None /\ resp = None
ConcIdle == tokens = <<>> /\ pc = None /\ held = None /\ nvalid = 0

\* ------------------------------------------------------------ codec lifecycle
\* New(key); the clock reads some instant.
Init ==
    /\ key \in Keys
    /\ MaxAge = New(key).MaxAge
    /\ now \in Instants
    /\ issued = None
    /\ res = None
    /\ HttpIdle
    /\ ConcIdle

\* The timer is replaced or time passes: the clock reads t.  The steps of the
\* caller come one at a time: res holds the outcome of a Validate until the
\* caller drops it.
SetTimer(t) ==
    /\ res = None
    /\ t # now
    /\ now' = t
    /\ res' = None
    /\ UNCHANGED <<key, MaxAge, issued, httpVars, concVars>>

\* The caller assigns the exported field MaxAge.
SetMaxAge(m) ==
    /\ res = None
    /\ m # MaxAge
    /\ MaxAge' = m
    /\ res' = None
    /\ UNCHANGED <<key, now, issued, httpVars, concVars>>

\* token := p.Generate(id)
DoGenerate(id) ==
    /\ res = None
    /\ issued' = [id |-> id, at |-> now, token |-> Generate(Params, now, id)]
    /\ res' = None
    /\ UNCHANGED <<key, MaxAge, now, httpVars, concVars>>

\* err := p.Validate(id, token) on the token last generated.
DoValidate(id) ==
    /\ res = None
    /\ issued # None
    /\ res' = [kind |-> "asis", id |-> id, token |-> issued.token,
               out |-> Validate(Params, now, id, issued.token)]
    /\ UNCHANGED <<key, MaxAge, now, issued, httpVars, concVars>>

\* The caller drops the result of the last Validate.
Discard ==
    /\ res # None
    /\ res' = None
    /\ UNCHANGED <<key, MaxAge, now, issued, httpVars, concVars>>

Next ==
    \/ Discard
    \/ \E t \in Instants : SetTimer(t)
    \/ \E m \in Policies : SetMaxAge(m)
    \/ \E id \in Ids : DoGenerate(id)
    \/ \E id \in Ids : DoValidate(id)

Spec == Init /\ [][Next]_vars

\* The last call validated the last generated token for its own identity.
OwnValidate == res # None /\ issued # None /\ res.kind = "asis" /\ res.id = issued.id

\* C1: a token validated for its own identity on the same codec, with the
\* clock still at the reading of its generation, is accepted.
C1_RoundTrip == (OwnValidate /\ now = issued.at) => res.out = Nil

C1_Witness == OwnValidate /\ now = issued.at /\ now.frac > 0 /\ res.out = Nil

\* C2: a token validated for an identity other than the one it was generated
\* for is rejected with ErrInvalidToken, whatever the clock reads.
C2_IdentityBinding ==
    (res # None /\ issued # None /\ res.kind = "asis" /\ res.id # issued.id)
        => res.out = ErrInvalidToken

C2_Witness ==
    /\ res # None /\ issued # None /\ res.kind = "asis"
    /\ res.id # issued.id /\ now = issued.at /\ res.out = ErrInvalidToken

\* C3 as stated: rejected when the clock is more than MaxAge past the reading
\* at generation, accepted when it is past it by less than MaxAge.
C3_ExpiryAsClaimed ==
    OwnValidate =>
        /\ Sub(now, issued.at) > MaxAge => res.out = ErrInvalidToken
        /\ (Sub(now, issued.at) >= 0 /\ Sub(now, issued.at) < MaxAge) => res.out = Nil

\* C3 amended: the age is measured from the generation reading cut to whole
\* seconds.  Rejected when the clock is more than MaxAge past the reading at
\* generation; accepted exactly when it is at most MaxAge past the whole second
\* of generation.
C3_Expiry ==
    OwnValidate =>
        /\ Sub(now, issued.at) > MaxAge => res.out = ErrInvalidToken
        /\ res.out = Nil <=> Sub(now, Stamp(issued.at)) <= MaxAge

C3_Witness ==
    /\ OwnValidate /\ issued.at.frac > 0
    /\ Sub(now, issued.at) > 0 /\ Sub(now, issued.at) < MaxAge
    /\ res.out = ErrInvalidToken

\* C9: an authenticated token stamped later than the clock reads is accepted
\* however far ahead it is, and an authenticated token is rejected only when
\* now - tokenTime > MaxAge.
C9_FutureTolerance ==
    OwnValidate =>
        /\ Sub(now, Stamp(issued.at)) < 0 => res.out = Nil
        /\ res.out = ErrInvalidToken => Sub(now, Stamp(issued.at)) > MaxAge

C9_Witness ==
    /\ OwnValidate /\ res.out = Nil
    /\ issued.at.hi = 65535 /\ now.hi < 30000

\* ------------------------------------------------------------ token inputs
\* The second specification feeds Validate the token shapes a caller can
\* hand it: a generated token with one bit of its decoded bytes inverted, with
\* bytes appended, cut short, prefixed, and texts that were never tokens.
InputInstants == {At(T0, 0, 1), At(T0, 300, 0), At(T0, 1200, 0)}

ExtraBytes == {0, 255}

RECURSIVE SeqsUpTo(_, _)
SeqsUpTo(S, n) ==
    IF n = 0 THEN {<<>>}
    ELSE LET shorter == SeqsUpTo(S, n - 1)
         IN shorter \cup {Append(q, x) : q \in {r \in shorter : Len(r) = n - 1}, x \in S}

Extras == SeqsUpTo(ExtraBytes, MaxExtra) \ {<<>>}

\* Texts that no Generate produced: "", "AAAA" (three bytes), "!" (not in the
\* alphabet), "AA" (an incomplete quantum).
RawTokens == {<<>>, <<65, 65, 65, 65>>, <<33>>, <<65, 65>>}

\* Newlines a caller may append to a text: the decoder skips them, and they
\* count in the size of its buffer.
NewlineRuns == {0, 16}

Newlines(n) == [i \in 1..n |-> 10]

Decoded(token) == DecodeString(token).data

InitInput ==
    /\ key \in Keys
    /\ MaxAge = New(key).MaxAge
    /\ now \in InputInstants
    /\ issued = None
    /\ res = None
    /\ HttpIdle
    /\ ConcIdle

InputSetTimer(t) ==
    /\ res = None
    /\ t # now
    /\ now' = t
    /\ res' = None
    /\ UNCHANGED <<key, MaxAge, issued, httpVars, concVars>>

ValidateInput(kind, id, token, arg) ==
    /\ res = None
    /\ res' = [kind |-> kind, id |-> id, token |-> token, arg |-> arg,
               out |-> Validate(Params, now, id, token)]
    /\ UNCHANGED <<key, MaxAge, now, issued, httpVars, concVars>>

\* The token as generated.
ValidateIssued(id) ==
    /\ issued # None
    /\ ValidateInput("asis", id, issued.token, <<>>)

\* b := decode(token); b[i] ^= 1 << k; token = encode(b)
ValidateFlipped(id, i, k) ==
    /\ issued # None
    /\ ValidateInput("flip", id, EncodeToString(FlipAt(Decoded(issued.token), i, k)), <<i, k>>)

\* token = encode(decode(token) ++ extra)
ValidateExtended(id, extra) ==
    /\ issued # None
    /\ ValidateInput("extend", id, EncodeToString(Decoded(issued.token) \o extra), extra)

\* token = encode(decode(token)[:n]) followed by nl newlines
ValidateTruncated(id, n, nl) ==
    /\ issued # None
    /\ ValidateInput("truncate", id,
                     EncodeToString(SubSeq(Decoded(issued.token), 1, n)) \o Newlines(nl),
                     <<n, nl>>)

\* token = "A" + token
ValidatePrefixed(id) ==
    /\ issued # None
    /\ ValidateInput("prefix", id, <<65>> \o issued.token, <<>>)

ValidateRaw(id, token) == ValidateInput("raw", id, token, <<>>)

NextInput ==
    \/ Discard
    \/ \E t \in InputInstants : InputSetTimer(t)
    \/ \E id \in Ids : DoGenerate(id)
    \/ \E id \in Ids : ValidateIssued(id)
    \/ \E id \in Ids, i \in 1..(dataSize + macSize), k \in 0..7 : ValidateFlipped(id, i, k)
    \/ \E id \in Ids, extra \in Extras : ValidateExtended(id, extra)
    \/ \E id \in Ids, n \in 0..(dataSize + macSize - 1), nl \in NewlineRuns :
          ValidateTruncated(id, n, nl)
    \/ \E id \in Ids : ValidatePrefixed(id)
    \/ \E id \in Ids, token \in RawTokens : ValidateRaw(id, token)

SpecInput == InitInput /\ [][NextInput]_vars

\* C4: Validate returns nil or ErrInvalidToken for every identity and every
\* text, never panics, and returns ErrInvalidToken for every malformed text
\* (not base64-url, or decoding to fewer than dataSize + macSize bytes).
C4_TotalTwoOutcomes ==
    res # None =>
        /\ res.out \in {Nil, ErrInvalidToken}
        /\ (DecodeString(res.token).err \/ Len(Decoded(res.token)) < dataSize + macSize)
              => res.out = ErrInvalidToken

\* C5: a generated token with any single bit of its decoded bytes inverted,
\* encoded again, is rejected with ErrInvalidToken.
C5_TamperSensitivity == (res # None /\ res.kind = "flip") => res.out = ErrInvalidToken

C5_Witness ==
    /\ res # None /\ issued # None /\ res.kind = "flip" /\ res.id = issued.id
    /\ res.arg = <<dataSize + macSize, 0>> /\ now = issued.at
    /\ res.out = ErrInvalidToken

\* C10 as stated: nil only for a decoded buffer of exactly dataSize + macSize
\* bytes; a token with bytes appended is rejected.
C10_ExactLengthAsClaimed ==
    res # None =>
        /\ res.out = Nil => Len(Decoded(res.token)) = dataSize + macSize
        /\ res.kind = "extend" => res.out = ErrInvalidToken

\* C10 amended: Validate reads the first dataSize + macSize bytes of the decode
\* buffer and nothing after them.  It returns nil only when those bytes are a
\* timestamp followed by its tag for the identity, and a token with bytes
\* appended gets the outcome of the token itself.
C10_PrefixAcceptance ==
    res # None =>
        /\ res.out = Nil =>
              LET d == DecodeString(res.token)
                  ts == SubSeq(Backing(d), 1, dataSize)
              IN /\ ~d.err
                 /\ d.cap >= dataSize + macSize
                 /\ SubSeq(Backing(d), dataSize + 1, dataSize + macSize)
                       = hmacSHA256(key, ts, res.id)
        /\ res.kind = "extend" => res.out = Validate(Params, now, res.id, issued.token)

C10_Witness ==
    /\ res # None /\ res.kind = "extend" /\ res.out = Nil
    /\ Len(Decoded(res.token)) = dataSize + macSize + MaxExtra

\* ------------------------------------------------------------ HTTP adapter
\* A request is [Header, Cookies]: Header maps a header name to its value
\* ("" when the header is absent), Cookies maps a cookie name to <<>> when the
\* request carries no such cookie and to <<value>> when it does.
testCSRFHeader == "csrf-hdr"
testCSRFCookie == "csrf-ck"
testSessionHeader == "s-hdr"
testSessionCookie == "s-ck"
testKey == <<251>>
testSessionID == <<97>>
notASession == <<98>>

\* The handlers an HTTPParams or a Wrap can name.
NilHandler == "nil"
CustomHandler == "custom"

\* The reading at which the test's own codec generated the token.
HttpGenAt == At(T0, 0, 1)
HttpInstants == {At(T0, 1200, 0), At(T0, 10801, 0)}

goodToken == Generate(New(testKey), HttpGenAt, testSessionID)
shortToken == <<65, 65, 65, 65>>
badText == <<33>>

TokenValues == {<<>>, goodToken, shortToken, badText}
IdValues == {<<>>, testSessionID, notASession}
Present(V) == {<<>>} \cup {<<v>> : v \in V}

Requests ==
    {[Header |-> [n \in {testCSRFHeader, testSessionHeader} |->
                     IF n = testCSRFHeader THEN th ELSE ih],
      Cookies |-> [n \in {testCSRFCookie, testSessionCookie} |->
                     IF n = testCSRFCookie THEN tc ELSE ic]] :
        th \in TokenValues, ih \in IdValues,
        tc \in Present(TokenValues), ic \in Present(IdValues)}

\* r.Header.Get(name)
HeaderGet(r, name) == IF name \in DOMAIN r.Header THEN r.Header[name] ELSE <<>>

\* r.Cookie(name): <<>> for http.ErrNoCookie, else <<cookie.Value>>.
Cookie(r, name) == IF name \in DOMAIN r.Cookies THEN r.Cookies[name] ELSE <<>>

\* A headerOrCookieValue that looks at the cookie first.
headerOrCookieValue_cookieFirst(r, headerName, cookieName) ==
    IF cookieName # "" /\ Cookie(r, cookieName) # <<>> THEN Cookie(r, cookieName)[1]
    ELSE IF headerName # "" THEN HeaderGet(r, headerName)
    ELSE <<>>

headerOrCookieValue(r, headerName, cookieName) ==
    IF headerName # "" /\ HeaderGet(r, headerName) # <<>> THEN HeaderGet(r, headerName)
    ELSE IF cookieName # "" /\ Cookie(r, cookieName) # <<>> THEN Cookie(r, cookieName)[1]
    ELSE <<>>

\* The handler Wrap returns, on request r: what is served, with the token and
\* the identity it extracted.  c is the codec Wrap built, h the HTTPParams as
\* they are when the request arrives.
Handle(c, h, t, r) ==
    LET token == headerOrCookieValue(r, h.CSRFHeader, h.CSRFCookie)
        id == headerOrCookieValue(r, h.SessionHeader, h.SessionCookie)
        err == IF token # <<>> /\ id # <<>> THEN Validate(c, t, id, token)
               ELSE ErrInvalidToken
        kind == IF err = Panic THEN "panic"
                ELSE IF err = Nil THEN "wrapped"
                ELSE IF h.InvalidHandler # NilHandler THEN "invalid"
                ELSE "forbidden"
    IN [kind |-> kind, token |-> token, id |-> id]

HTTPParamsSet ==
    [InvalidHandler : {NilHandler}, Key : {<<>>, testKey},
     CSRFCookie : {"", testCSRFCookie}, CSRFHeader : {"", testCSRFHeader},
     SessionCookie : {"", testSessionCookie}, SessionHeader : {"", testSessionHeader}]

CodecIdle == key = testKey /\ MaxAge = New(testKey).MaxAge /\ issued = None /\ res = None

\* v := HTTPParams{...}
InitHTTP ==
    /\ hp \in HTTPParamsSet
    /\ csrf = None
    /\ req = None
    /\ resp = None
    /\ now \in HttpInstants
    /\ CodecIdle
    /\ ConcIdle

\* handler := v.Wrap(h)
Wrap ==
    /\ csrf = None
    /\ csrf' = [New(hp.Key) EXCEPT !.MaxAge = Hours(3)]
    /\ UNCHANGED <<hp, req, resp, codecVars, concVars>>

\* v.InvalidHandler = ...
SetInvalidHandler(h) ==
    /\ resp = None
    /\ h # hp.InvalidHandler
    /\ hp' = [hp EXCEPT !.InvalidHandler = h]
    /\ UNCHANGED <<csrf, req, resp, codecVars, concVars>>

\* v.Key = ...
SetKey(k) ==
    /\ resp = None
    /\ k # hp.Key
    /\ hp' = [hp EXCEPT !.Key = k]
    /\ UNCHANGED <<csrf, req, resp, codecVars, concVars>>

HttpSetTimer(t) ==
    /\ resp = None
    /\ t # now
    /\ now' = t
    /\ UNCHANGED <<key, MaxAge, issued, res, httpVars, concVars>>

\* handler.ServeHTTP(w, r)
ServeHTTP(r) ==
    /\ csrf # None
    /\ resp = None
    /\ req' = r
    /\ resp' = Handle(csrf, hp, now, r)
    /\ UNCHANGED <<hp, csrf, codecVars, concVars>>

\* The response is read and dropped.
HttpDone ==
    /\ resp # None
    /\ req' = None
    /\ resp' = None
    /\ UNCHANGED <<hp, csrf, codecVars, concVars>>

NextHTTP ==
    \/ Wrap
    \/ \E h \in {NilHandler, CustomHandler} : SetInvalidHandler(h)
    \/ \E k \in {<<>>, testKey} : SetKey(k)
    \/ \E t \in HttpInstants : HttpSetTimer(t)
    \/ \E r \in Requests : ServeHTTP(r)
    \/ HttpDone

SpecHTTP == InitHTTP /\ [][NextHTTP]_vars

NoSource ==
    hp.CSRFHeader = "" /\ hp.CSRFCookie = "" /\ hp.SessionHeader = "" /\ hp.SessionCookie = ""

\* C6: every request ends in exactly one of: the wrapped handler served, only
\* with a non-empty token and identity that Validate accepted; else the
\* InvalidHandler of that moment when it is not nil; else a 403.  With no header
\* or cookie name configured the wrapped handler is never served.
C6_Dispatch ==
    resp # None =>
        /\ resp.kind \in {"wrapped", "invalid", "forbidden"}
        /\ resp.kind = "wrapped" =>
              /\ resp.token # <<>> /\ resp.id # <<>>
              /\ Validate(csrf, now, resp.id, resp.token) = Nil
        /\ (resp.kind # "wrapped" /\ hp.InvalidHandler # NilHandler) => resp.kind = "invalid"
        /\ (resp.kind # "wrapped" /\ hp.InvalidHandler = NilHandler) => resp.kind = "forbidden"
        /\ NoSource => resp.kind # "wrapped"

\* The value the request offers under a header name and under a cookie name.
FromHeader(hname) == IF hname = "" THEN <<>> ELSE HeaderGet(req, hname)
HasCookie(cname) == cname # "" /\ Cookie(req, cname) # <<>>

ExtractedAsOrdered(used, hname, cname) ==
    /\ FromHeader(hname) # <<>> => used = FromHeader(hname)
    /\ (FromHeader(hname) = <<>> /\ HasCookie(cname)) => used = Cookie(req, cname)[1]
    /\ (FromHeader(hname) = <<>> /\ ~HasCookie(cname)) => used = <<>>

\* C7: the token and the identity are each the configured header's value when
\* it is non-empty, else the configured cookie's value, else empty; a non-empty
\* header value is never replaced by the cookie's.
C7_ExtractionOrder ==
    resp # None =>
        /\ ExtractedAsOrdered(resp.token, hp.CSRFHeader, hp.CSRFCookie)
        /\ ExtractedAsOrdered(resp.id, hp.SessionHeader, hp.SessionCookie)

\* The header carries a text that fails, the cookie the token that would pass.
C7_Witness ==
    /\ resp # None
    /\ hp.CSRFHeader # "" /\ hp.CSRFCookie # "" /\ csrf.key = testKey
    /\ req.Header[testCSRFHeader] = badText
    /\ req.Cookies[testCSRFCookie] = <<goodToken>>
    /\ resp.id = testSessionID
    /\ Validate(csrf, now, resp.id, goodToken) = Nil
    /\ resp.token = badText /\ resp.kind # "wrapped"

\* ------------------------------------------------------------ concurrent round trip
\* Producers generate tokens for one identity and send them on a channel;
\* consumers receive each token once and validate it; main closes the channel
\* when the producers are done.  Process 0 is main.
Producers == 1..NumProducers
Consumers == (NumProducers + 1)..(NumProducers + NumConsumers)
concId == <<119, 111, 111>>
concKey == <<7, 9>>

\* The clock starts inside a second and is read again at most MaxAge less one
\* second later.
ConcStart == At(T0, 0, 1)
ConcInstants == {At(T0, 0, 2), At(T0, 300, 0), At(T0, 599, 1)}

InitConc ==
    /\ key = concKey
    /\ MaxAge = New(concKey).MaxAge
    /\ now = ConcStart
    /\ issued = None
    /\ res = None
    /\ HttpIdle
    /\ tokens = <<>>
    /\ pc = [i \in {0} \cup Producers \cup Consumers |->
               IF i = 0 THEN [at |-> "waitP", j |-> 0]
               ELSE IF i \in Producers THEN [at |-> "generate", j |-> 0]
               ELSE [at |-> "receive", j |-> 0]]
    /\ held = [i \in Producers \cup Consumers |-> <<>>]
    /\ nvalid = 0

\* Time passes while the goroutines run.
ConcTick(t) ==
    /\ Sub(t, now) > 0
    /\ now' = t
    /\ UNCHANGED <<key, MaxAge, issued, res, httpVars, concVars>>

\* token := params.Generate("woo")
Produce(i) ==
    /\ pc[i].at = "generate"
    /\ held' = [held EXCEPT ![i] = Generate(Params, now, concId)]
    /\ pc' = [pc EXCEPT ![i].at = "send"]
    /\ UNCHANGED <<tokens, nvalid, codecVars, httpVars>>

\* tokens <- token, and the loop's next round
Send(i) ==
    /\ pc[i].at = "send"
    /\ Len(tokens) < ChanCap
    /\ tokens' = Append(tokens, held[i])
    /\ held' = [held EXCEPT ![i] = <<>>]
    /\ pc' = [pc EXCEPT ![i] = [at |-> IF pc[i].j + 1 < PerProducer THEN "generate" ELSE "done",
                                j |-> pc[i].j + 1]]
    /\ UNCHANGED <<nvalid, codecVars, httpVars>>

\* for token := range tokens
Receive(i) ==
    /\ pc[i].at = "receive"
    /\ \/ /\ tokens # <<>>
          /\ held' = [held EXCEPT ![i] = Head(tokens)]
          /\ tokens' = Tail(tokens)
          /\ pc' = [pc EXCEPT ![i].at = "validate"]
       \/ /\ tokens = <<>>
          /\ pc[0].at # "waitP"
          /\ pc' = [pc EXCEPT ![i].at = "done"]
          /\ UNCHANGED <<tokens, held>>
    /\ UNCHANGED <<nvalid, codecVars, httpVars>>

\* if err := params.Validate("woo", token); err != nil { t.Fatal(err) }
Consume(i) ==
    /\ pc[i].at = "validate"
    /\ LET err == Validate(Params, now, concId, held[i])
       IN /\ pc' = [pc EXCEPT ![i].at = IF err = Nil THEN "receive" ELSE "failed"]
          /\ nvalid' = IF err = Nil THEN nvalid + 1 ELSE nvalid
    /\ held' = [held EXCEPT ![i] = <<>>]
    /\ UNCHANGED <<tokens, codecVars, httpVars>>

\* wgP.Wait(); close(tokens)
CloseTokens ==
    /\ pc[0].at = "waitP"
    /\ \A i \in Producers : pc[i].at = "done"
    /\ pc' = [pc EXCEPT ![0].at = "waitC"]
    /\ UNCHANGED <<tokens, held, nvalid, codecVars, httpVars>>

\* wgC.Wait()
Finish ==
    /\ pc[0].at = "waitC"
    /\ \A i \in Consumers : pc[i].at = "done"
    /\ pc' = [pc EXCEPT ![0].at = "done"]
    /\ UNCHANGED <<tokens, held, nvalid, codecVars, httpVars>>

NextConc ==
    \/ \E t \in ConcInstants : ConcTick(t)
    \/ \E i \in Producers : Produce(i)
    \/ \E i \in Producers : Send(i)
    \/ \E i \in Consumers : Receive(i)
    \/ \E i \in Consumers : Consume(i)
    \/ CloseTokens
    \/ Finish

SpecConc == InitConc /\ [][NextConc]_vars

=============================================================================
